---------------------------- MODULE Spec2Model ----------------------------
(***************************************************************************)
(* Model of mplfinance/_panels.py: _build_panels (panel set resolution,    *)
(* ratio resolution, heights, lifts, creation of the Axes) and             *)
(* _set_ticks_on_bottom_panel_only.                                        *)
(*                                                                         *)
(* Python values that can be of several types (an int, a str, None) are    *)
(* records [t, i, s]; heights and lifts are exact rationals <<num, den>>   *)
(* in lowest terms (the code computes them in binary floating point, so    *)
(* every equality on them below is an equality of the exact values).       *)
(* A column of the DataFrame is a function from panel id to the value of   *)
(* the cell; a cell that still holds None is a panel id outside its        *)
(* DOMAIN.                                                                 *)
(***************************************************************************)
EXTENDS Integers, Sequences, FiniteSets

----------------------------------------------------------------------------
(* Bounds of the model *)

\* largest panel id that overlays, volume_panel and main_panel draw from
MaxId == 2
\* largest number of records in an addplot list
MaxOverlays == 2
\* longest panel_ratios sequence
MaxRatioLen == 3
\* largest single relative size in panel_ratios
MaxRatio == 2

(* Program constants *)

\* "We allow up to 10 panels": num_panels > 10 is rejected, panel ids are < 10
MaxPanels == 10
\* default relative size of the main panel and of every other panel
MainRelsize == 5
OtherRelsize == 2
\* 0.7 * size / psum: the band of the figure the panels share, as 7/10
BandNum == 7
BandDen == 10

----------------------------------------------------------------------------
(* Python values *)

NoneV == [t |-> "none", i |-> 0, s |-> ""]
IntV(n) == [t |-> "int", i |-> n, s |-> ""]
StrV(x) == [t |-> "str", i |-> 0, s |-> x]

\* range(0, n), as the list Python iterates over
RangeList(n) == [k \in 1..n |-> k - 1]

\* sorted(S) for a finite set of integers
RECURSIVE Sorted(_)
Sorted(S) ==
    IF S = {} THEN <<>>
    ELSE LET lo == CHOOSE x \in S : \A y \in S : x <= y
         IN  <<lo>> \o Sorted(S \ {lo})

\* the elements of a list, as a set
Elems(q) == {q[k] : k \in 1..Len(q)}

(* Exact rationals <<num, den>>, den > 0, in lowest terms *)

RECURSIVE Gcd(_, _)
Gcd(a, b) == IF b = 0 THEN a ELSE Gcd(b, a % b)

Rat(n, d) == LET g == Gcd(n, d) IN <<n \div g, d \div g>>
RatZero == <<0, 1>>
RatAdd(x, y) == Rat(x[1] * y[2] + y[1] * x[2], x[2] * y[2])
RatLeq(x, y) == x[1] * y[2] <= y[1] * x[2]

----------------------------------------------------------------------------
(* Errors: the exception class, the raise statement, the values the        *)
(* message is built from                                                   *)

NoErr == [kind |-> "none", site |-> "", args |-> <<>>]
Err(kind, site, args) == [kind |-> kind, site |-> site, args |-> args]

----------------------------------------------------------------------------
(* Helpers imported from the rest of the package *)

\* mplfinance._arg_validators._valid_panel_id: an integer 0 to 9
_valid_panel_id(panid) == panid.t = "int" /\ panid.i >= 0 /\ panid.i < MaxPanels

\* mplfinance._helpers._list_of_dict: a list whose items are all dict
_list_of_dict(x) == x.t = "list"

----------------------------------------------------------------------------
(* Panel set resolution *)

\* the lookup of a legacy panel name; any other value is left as it is
backwards_panel_compatibility(panel) ==
    IF panel.t # "str" THEN panel
    ELSE CASE panel.s = "main"  -> IntV(0)
           [] panel.s = "lower" -> IntV(1)
           [] panel.s = "A"     -> IntV(0)
           [] panel.s = "B"     -> IntV(1)
           [] panel.s = "C"     -> IntV(2)
           [] OTHER             -> panel

\* for apdict in addplot: from record k on, with the set built so far
RECURSIVE ScanAddplot(_, _, _)
ScanAddplot(items, k, ps) ==
    IF k > Len(items) THEN [err |-> NoErr, pset |-> ps]
    ELSE LET apdict == items[k]
         IN  IF ~apdict.has_panel
             THEN [err |-> Err("KeyError", "addplot_panel", <<>>), pset |-> ps]
             ELSE LET panel == backwards_panel_compatibility(apdict.panel)
                  IN  IF ~_valid_panel_id(panel)
                      THEN [err |-> Err("ValueError", "addplot_panel", <<panel>>),
                            pset |-> ps]
                      ELSE ScanAddplot(items, k + 1, ps \cup {panel.i})

\* the set of panel ids referenced by the configuration, before sorting
ReferencedPanels(cfg) ==
    LET start == [err |-> NoErr, pset |-> {0}]
        a == IF cfg.addplot.t = "none" THEN start
             ELSE IF cfg.addplot.t # "dict" /\ ~_list_of_dict(cfg.addplot)
                  THEN [err |-> Err("TypeError", "addplot", <<>>), pset |-> {0}]
                  ELSE ScanAddplot(cfg.addplot.items, 1, {0})
        v == IF a.err # NoErr \/ ~cfg.volume THEN a
             ELSE IF ~_valid_panel_id(cfg.volume_panel)
                  THEN [err |-> Err("ValueError", "volume_panel", <<cfg.volume_panel>>),
                        pset |-> a.pset]
                  ELSE [err |-> NoErr, pset |-> a.pset \cup {cfg.volume_panel.i}]
    IN  IF v.err # NoErr THEN v
        ELSE [err |-> NoErr, pset |-> v.pset \cup {cfg.main_panel.i}]

\* Missing with the last position left out: range(len(pset) - 1)
MissingShort(ps) == SelectSeq(RangeList(Len(ps) - 1), LAMBDA m : m \notin Elems(ps))

\* missing = [m for m in range(len(pset)) if m not in pset]
Missing(ps) == SelectSeq(RangeList(Len(ps)), LAMBDA m : m \notin Elems(ps))

\* InferredIndex with the unreferenced ids below the largest one filled in
InferredIndexFilled(cfg) ==
    LET r == ReferencedPanels(cfg)
    IN  IF r.err # NoErr THEN [err |-> r.err, pset |-> <<>>]
        ELSE LET hi == CHOOSE x \in r.pset : \A y \in r.pset : y <= x
             IN  [err |-> NoErr, pset |-> RangeList(hi + 1)]

\* num_panels is None: the sorted list of panel ids, or the error raised
InferredIndex(cfg) ==
    LET r == ReferencedPanels(cfg)
    IN  IF r.err # NoErr THEN [err |-> r.err, pset |-> <<>>]
        ELSE LET ps == Sorted(r.pset)
                 missing == Missing(ps)
             IN  IF Len(missing) # 0
                 THEN [err |-> Err("ValueError", "missing",
                                   [k \in 1..Len(missing) |-> IntV(missing[k])]),
                       pset |-> <<>>]
                 ELSE [err |-> NoErr, pset |-> ps]

\* ExplicitIndex with volume_panel validated as it is in inferred mode
ExplicitIndexVolumeChecked(cfg) ==
    IF cfg.num_panels.t # "int" \/ cfg.num_panels.i < 1 \/ cfg.num_panels.i > MaxPanels
    THEN [err |-> Err("ValueError", "num_panels", <<cfg.volume_panel>>), pset |-> <<>>]
    ELSE IF cfg.volume /\ ~_valid_panel_id(cfg.volume_panel)
         THEN [err |-> Err("ValueError", "volume_panel", <<cfg.volume_panel>>),
               pset |-> <<>>]
         ELSE [err |-> NoErr, pset |-> RangeList(cfg.num_panels.i)]

\* num_panels is given: range(0, num_panels), or the error raised
ExplicitIndex(cfg) ==
    IF cfg.num_panels.t # "int" \/ cfg.num_panels.i < 1 \/ cfg.num_panels.i > MaxPanels
    THEN [err |-> Err("ValueError", "num_panels", <<cfg.volume_panel>>), pset |-> <<>>]
    ELSE [err |-> NoErr, pset |-> RangeList(cfg.num_panels.i)]

----------------------------------------------------------------------------
(* Ratio resolution, heights and lifts *)

\* [x] * n
Repeat(x, n) == [k \in 1..n |-> x]

\* pratios[main_panel] = x on a Python list (position main_panel + 1 here)
SetItem(lst, idx, x) == [lst EXCEPT ![idx + 1] = x]

\* ResolvePratios with the two-element shorthand tried before the direct
\* assignment: len(panel_ratios) == 2 alone selects it
ResolvePratiosShorthandFirst(panel_ratios, n, main_panel) ==
    IF panel_ratios.t # "none"
    THEN IF panel_ratios.t \notin {"list", "tuple"}
         THEN [err |-> Err("TypeError", "panel_ratios", <<>>), pratios |-> <<>>]
         ELSE LET len == Len(panel_ratios.v)
              IN  IF len # n /\ ~(len = 2 /\ n > 2)
                  THEN [err |-> Err("ValueError", "panel_ratios", <<IntV(len), IntV(n)>>),
                        pratios |-> <<>>]
                  ELSE IF len = 2
                       THEN IF main_panel >= n
                            THEN [err |-> Err("IndexError", "pratios", <<>>),
                                  pratios |-> <<>>]
                            ELSE [err |-> NoErr,
                                  pratios |-> SetItem(Repeat(panel_ratios.v[2], n),
                                                      main_panel, panel_ratios.v[1])]
                       ELSE [err |-> NoErr, pratios |-> panel_ratios.v]
    ELSE IF main_panel >= n
         THEN [err |-> Err("IndexError", "pratios", <<>>), pratios |-> <<>>]
         ELSE [err |-> NoErr,
               pratios |-> SetItem(Repeat(OtherRelsize, n), main_panel, MainRelsize)]

\* the relative sizes of n panels, or the error raised
ResolvePratios(panel_ratios, n, main_panel) ==
    IF panel_ratios.t # "none"
    THEN IF panel_ratios.t \notin {"list", "tuple"}
         THEN [err |-> Err("TypeError", "panel_ratios", <<>>), pratios |-> <<>>]
         ELSE LET len == Len(panel_ratios.v)
              IN  IF len # n /\ ~(len = 2 /\ n > 2)
                  THEN [err |-> Err("ValueError", "panel_ratios", <<IntV(len), IntV(n)>>),
                        pratios |-> <<>>]
                  ELSE IF len = 2 /\ n > 2
                       THEN IF main_panel >= n
                            THEN [err |-> Err("IndexError", "pratios", <<>>),
                                  pratios |-> <<>>]
                            ELSE [err |-> NoErr,
                                  pratios |-> SetItem(Repeat(panel_ratios.v[2], n),
                                                      main_panel, panel_ratios.v[1])]
                       ELSE [err |-> NoErr, pratios |-> panel_ratios.v]
    ELSE IF main_panel >= n
         THEN [err |-> Err("IndexError", "pratios", <<>>), pratios |-> <<>>]
         ELSE [err |-> NoErr,
               pratios |-> SetItem(Repeat(OtherRelsize, n), main_panel, MainRelsize)]

\* sum(pratios)
RECURSIVE Sum(_)
Sum(lst) == IF lst = <<>> THEN 0 ELSE Head(lst) + Sum(Tail(lst))

\* 0.7 * size / psum
Height(size, psum) == Rat(BandNum * size, BandDen * psum)

\* .sum() of the cells of column h in the rows S
RECURSIVE RatSum(_, _)
RatSum(h, S) ==
    IF S = {} THEN RatZero
    ELSE LET j == CHOOSE x \in S : TRUE
         IN  RatAdd(h[j], RatSum(h, S \ {j}))

\* Lift with the slice starting at the panel itself: .loc[panid:]
LiftFromSelf(h, panid) == RatSum(h, {j \in DOMAIN h : j >= panid})

\* panels['height'].loc[panid+1:].sum(): the heights of the rows whose label
\* is panid+1 or more
Lift(h, panid) == RatSum(h, {j \in DOMAIN h : j >= panid + 1})

----------------------------------------------------------------------------
(* The tick policy *)

\* panels.index.values[::-1]
Reversed(lst) == [k \in 1..Len(lst) |-> lst[Len(lst) + 1 - k]]

\* HiddenPanels without the reversal: panels.index.values[1:]
HiddenPanelsNotReversed(index) == Tail(index)

\* panels.index.values[::-1][1:]: the panels whose tick labels are hidden
HiddenPanels(index) == Tail(Reversed(index))

----------------------------------------------------------------------------
(* State *)

VARIABLES
    config,    \* the config dict of the call
    pc,        \* the statement _build_panels (or the tick policy) is at
    pset,      \* the index of the DataFrame panels (panid), in order
    relsize,   \* column relsize: panid -> relative size
    height,    \* column height: panid -> rational
    lift,      \* column lift: panid -> rational
    axes,      \* column axes: panid -> <<primary, secondary>>
    panid,     \* position of the loop over panels.iterrows() in pset
    figure,    \* the calls made on the figure and on its Axes
    err,       \* the exception that ended the call, or NoErr
    ticks      \* the calls the tick policy made, in order

vars == <<config, pc, pset, relsize, height, lift, axes, panid, figure, err, ticks>>

\* a column in which every cell is None
NoCells == <<>>

----------------------------------------------------------------------------
(* The configurations the model runs *)

IdInputs == {IntV(n) : n \in (-1)..MaxId} \cup {IntV(MaxPanels)}
VolumePanelInputs == IdInputs \cup {NoneV}
NumPanelsInputs ==
    {IntV(n) : n \in 0..(MaxId + 2)} \cup {IntV(MaxPanels), IntV(MaxPanels + 1), StrV("3")}

\* an addplot dict: with its 'panel' item, or without one
OverlayInputs ==
    {[has_panel |-> TRUE, panel |-> v] :
        v \in {IntV(n) : n \in 0..MaxId}
                \cup {IntV(MaxPanels), StrV("lower"), StrV("C"), StrV("zz")}}
    \cup {[has_panel |-> FALSE, panel |-> NoneV]}

SeqsUpTo(S, n) == UNION {[1..k -> S] : k \in 0..n}

NoAddplot == [t |-> "none", items |-> <<>>]
\* None, a single dict, a list of dict, or something that is neither
AddplotInputs(maxlen) ==
    {NoAddplot, [t |-> "other", items |-> <<>>]}
    \cup {[t |-> "dict", items |-> <<d>>] : d \in OverlayInputs}
    \cup {[t |-> "list", items |-> q] : q \in SeqsUpTo(OverlayInputs, maxlen)}

NoRatios == [t |-> "none", v |-> <<>>]
\* None, a list or a tuple of relative sizes, or something that is neither
RatioInputs ==
    {NoRatios, [t |-> "other", v |-> <<>>]}
    \cup {[t |-> k, v |-> q] : k \in {"list", "tuple"},
                               q \in SeqsUpTo(0..MaxRatio, MaxRatioLen)}

Config(np, ap, vol, vp, mp, pr, sax) ==
    [num_panels |-> np, addplot |-> ap, volume |-> vol, volume_panel |-> vp,
     main_panel |-> mp, panel_ratios |-> pr, saxbelow |-> sax]

\* inferred panel count: every overlay, volume and main_panel input, with the
\* default ratios or a two-element or three-element list
InferredConfigs ==
    {Config(NoneV, ap, vol, vp, mp, pr, FALSE) :
        ap \in AddplotInputs(MaxOverlays), vol \in BOOLEAN, vp \in VolumePanelInputs,
        mp \in IdInputs,
        pr \in {NoRatios, [t |-> "list", v |-> <<1, 2>>], [t |-> "list", v |-> <<2, 1, 1>>]}}

\* explicit panel count: every ratio input, no overlay
ExplicitConfigs ==
    {Config(np, NoAddplot, FALSE, NoneV, mp, pr, sax) :
        np \in NumPanelsInputs, mp \in IdInputs, pr \in RatioInputs, sax \in BOOLEAN}

\* explicit panel count: every overlay and volume input of at most one
\* record, with the default ratios
ExplicitOverlayConfigs ==
    {Config(np, ap, vol, vp, mp, NoRatios, sax) :
        np \in NumPanelsInputs, ap \in AddplotInputs(1), vol \in BOOLEAN,
        vp \in VolumePanelInputs, mp \in IdInputs, sax \in BOOLEAN}

Init ==
    /\ \/ config \in InferredConfigs
       \/ config \in ExplicitConfigs
       \/ config \in ExplicitOverlayConfigs
    /\ pc = "main_panel"
    /\ pset = <<>>
    /\ relsize = NoCells
    /\ height = NoCells
    /\ lift = NoCells
    /\ axes = NoCells
    /\ panid = 0
    /\ figure = [add_axes |-> <<>>, twinx |-> 0, axisbelow |-> {}]
    /\ err = NoErr
    /\ ticks = <<>>

----------------------------------------------------------------------------
(* _build_panels, statement by statement *)

Raise(e) ==
    /\ pc' = "error"
    /\ err' = e

\* if not _valid_panel_id(main_panel): raise ValueError
ValidateMainPanel ==
    /\ pc = "main_panel"
    /\ IF ~_valid_panel_id(config.main_panel)
       THEN Raise(Err("ValueError", "main_panel", <<config.main_panel>>))
       ELSE pc' = "pset" /\ err' = err
    /\ UNCHANGED <<config, pset, relsize, height, lift, axes, panid, figure, ticks>>

\* the index is set, and the DataFrame is built with every cell None
BuildIndex(r) ==
    /\ IF r.err # NoErr
       THEN Raise(r.err) /\ pset' = pset
       ELSE pc' = "ratios" /\ pset' = r.pset /\ err' = err
    /\ UNCHANGED <<config, relsize, height, lift, axes, panid, figure, ticks>>

\* if num_panels is None: infer the panels
InferPanels ==
    /\ pc = "pset"
    /\ config.num_panels = NoneV
    /\ BuildIndex(InferredIndex(config))

\* else: num_panels panels
ExplicitPanels ==
    /\ pc = "pset"
    /\ config.num_panels # NoneV
    /\ BuildIndex(ExplicitIndex(config))

\* the row of the DataFrame that has label p
Position(index, p) == CHOOSE k \in 1..Len(index) : index[k] = p

\* pratios is resolved and stored: panels['relsize'] = pratios, row by row
ResolveRatios ==
    /\ pc = "ratios"
    /\ LET r == ResolvePratios(config.panel_ratios, Len(pset), config.main_panel.i)
       IN  IF r.err # NoErr
           THEN Raise(r.err) /\ relsize' = relsize
           ELSE /\ pc' = "heights"
                /\ relsize' = [p \in Elems(pset) |-> r.pratios[Position(pset, p)]]
                /\ err' = err
    /\ UNCHANGED <<config, pset, height, lift, axes, panid, figure, ticks>>

\* the list pratios, read back from the column it was stored in
Pratios == [k \in 1..Len(pset) |-> relsize[pset[k]]]

\* psum = sum(pratios); panels.at[panid,'height'] = 0.7 * size / psum
ComputeHeights ==
    /\ pc = "heights"
    /\ LET psum == Sum(Pratios)
       IN  IF psum = 0
           THEN /\ Raise(Err("ZeroDivisionError", "height", <<>>))
                /\ UNCHANGED <<height, panid>>
           ELSE /\ pc' = "axes"
                /\ height' = [p \in 0..(Len(pset) - 1) |-> Height(Pratios[p + 1], psum)]
                /\ panid' = 1
                /\ err' = err
    /\ UNCHANGED <<config, pset, relsize, lift, axes, figure, ticks>>

\* CreateAxes without the last statement of the loop: the pair of Axes is
\* never stored in the table
CreateAxesNotStored ==
    /\ pc = "axes"
    /\ panid <= Len(pset)
    /\ LET id == pset[panid]
           l == Lift(height, id)
       IN  /\ lift' = [p \in DOMAIN lift \cup {id} |-> IF p = id THEN l ELSE lift[p]]
           /\ IF id # 0 /\ 0 \notin DOMAIN axes
              THEN \* panels.at[0,'axes'] is None: None[0]
                   /\ Raise(Err("TypeError", "sharex", <<>>))
                   /\ UNCHANGED <<axes, figure, panid>>
              ELSE /\ figure' =
                        [add_axes |-> Append(figure.add_axes,
                                             [lift |-> l, height |-> height[id],
                                              sharex |-> IF id = 0 THEN <<>>
                                                         ELSE <<axes[0][1]>>]),
                         twinx |-> figure.twinx + 1,
                         axisbelow |-> IF config.saxbelow \/ IntV(id) = config.volume_panel
                                       THEN figure.axisbelow \cup {<<id, 0>>}
                                       ELSE figure.axisbelow]
                   /\ axes' = axes
                   /\ panid' = panid + 1
                   /\ UNCHANGED <<pc, err>>
    /\ UNCHANGED <<config, pset, relsize, height, ticks>>

\* one pass of the loop over panels.iterrows(): the lift, the two Axes
CreateAxes ==
    /\ pc = "axes"
    /\ panid <= Len(pset)
    /\ LET id == pset[panid]
           l == Lift(height, id)
       IN  /\ lift' = [p \in DOMAIN lift \cup {id} |-> IF p = id THEN l ELSE lift[p]]
           /\ IF id # 0 /\ 0 \notin DOMAIN axes
              THEN \* panels.at[0,'axes'] is None: None[0]
                   /\ Raise(Err("TypeError", "sharex", <<>>))
                   /\ UNCHANGED <<axes, figure, panid>>
              ELSE /\ figure' =
                        [add_axes |-> Append(figure.add_axes,
                                             [lift |-> l, height |-> height[id],
                                              sharex |-> IF id = 0 THEN <<>>
                                                         ELSE <<axes[0][1]>>]),
                         twinx |-> figure.twinx + 1,
                         axisbelow |-> IF config.saxbelow \/ IntV(id) = config.volume_panel
                                       THEN figure.axisbelow \cup {<<id, 0>>}
                                       ELSE figure.axisbelow]
                   /\ axes' = [p \in DOMAIN axes \cup {id} |->
                                  IF p = id THEN <<<<id, 0>>, <<id, 1>>>> ELSE axes[p]]
                   /\ panid' = panid + 1
                   /\ UNCHANGED <<pc, err>>
    /\ UNCHANGED <<config, pset, relsize, height, ticks>>

\* return panels
Return ==
    /\ pc = "axes"
    /\ panid > Len(pset)
    /\ pc' = "done"
    /\ UNCHANGED <<config, pset, relsize, height, lift, axes, panid, figure, err, ticks>>

----------------------------------------------------------------------------
(* _set_ticks_on_bottom_panel_only, on the table _build_panels returned *)

TickCall(ax, what) == [ax |-> ax, what |-> what]

\* the labelbottom=False calls of the loop, in order
HideCalls(index) ==
    [k \in 1..Len(HiddenPanels(index)) |->
        TickCall(axes[HiddenPanels(index)[k]][1], "labelbottom_off")]

SetTicksOnBottomPanelOnly ==
    /\ pc = "done"
    /\ LET bot == pset[Len(pset)]
           ax == axes[bot][1]
           first == <<TickCall(ax, "rotation"), TickCall(ax, "formatter")>>
       IN  ticks' = IF Len(pset) = 1 THEN first ELSE first \o HideCalls(pset)
    /\ pc' = "ticked"
    /\ UNCHANGED <<config, pset, relsize, height, lift, axes, panid, figure, err>>

----------------------------------------------------------------------------

Next ==
    \/ ValidateMainPanel
    \/ InferPanels
    \/ ExplicitPanels
    \/ ResolveRatios
    \/ ComputeHeights
    \/ CreateAxes
    \/ Return
    \/ SetTicksOnBottomPanelOnly

Spec == Init /\ [][Next]_vars

----------------------------------------------------------------------------
(* Properties *)

\* the stages at which the index of the table exists
IndexBuilt == pc \notin {"main_panel", "pset", "error"} \/ (pc = "error" /\ pset # <<>>)
\* the call has ended: an exception, or the table was returned
Ended == pc \in {"error", "done", "ticked"}
Returned == pc \in {"done", "ticked"}
Inferred == config.num_panels = NoneV
\* the panel resolution is over, one way or the other
Resolved == pc \notin {"main_panel", "pset"}

\* every overlay has a panel id
OverlaysHavePanel ==
    /\ config.addplot.t # "other"
    /\ \A k \in 1..Len(config.addplot.items) : config.addplot.items[k].has_panel

\* {0, main_panel, every overlay's panel id, volume_panel if volume is enabled}
CandidateSet ==
    {IntV(0), config.main_panel}
    \cup {backwards_panel_compatibility(config.addplot.items[k].panel) :
            k \in 1..Len(config.addplot.items)}
    \cup (IF config.volume THEN {config.volume_panel} ELSE {})

\* S is {0, ..., k-1} for some k
InitialSegment(S) == S = {IntV(m) : m \in 0..(Cardinality(S) - 1)}

\* C1: the index of the table is 0,1,...,n-1 with 1 <= n <= 10; and in inferred
\* mode a candidate set that is not {0..k-1} ends the build with a ValueError
\* and no table.
C1_ContiguousIndex ==
    /\ IndexBuilt => /\ Len(pset) >= 1 /\ Len(pset) <= MaxPanels
                     /\ pset = RangeList(Len(pset))
    /\ (Inferred /\ OverlaysHavePanel /\ ~InitialSegment(CandidateSet) /\ Resolved)
          => (pc = "error" /\ err.kind = "ValueError" /\ pset = <<>>)

\* a table of three panels, inferred from the overlays, was returned
C1_Witness ==
    /\ Inferred /\ Returned /\ Len(pset) = 3
    /\ config.addplot.t = "list" /\ Len(config.addplot.items) = 2

\* the scenario: main_panel=0, volume disabled, addplot=[{panel: 2}], no
\* num_panels, no panel_ratios
GapScenario ==
    /\ Inferred
    /\ config.main_panel = IntV(0)
    /\ ~config.volume
    /\ config.addplot = [t |-> "list", items |-> <<[has_panel |-> TRUE, panel |-> IntV(2)]>>]
    /\ config.panel_ratios = NoRatios

\* every candidate is a valid panel id, as an integer
CandidateIds == {v.i : v \in CandidateSet}
CandidatesValid == \A v \in CandidateSet : v.t = "int" /\ v.i >= 0 /\ v.i < MaxPanels

\* C2 as stated: in the scenario the build succeeds with panels 0,1,2 and
\* relative sizes 5,2,2.
C2_GapFilled ==
    (GapScenario /\ Ended)
        => /\ Returned
           /\ pset = <<0, 1, 2>>
           /\ relsize = [p \in {0, 1, 2} |-> IF p = 0 THEN 5 ELSE 2]

\* C2 amended: in inferred mode an id below the largest referenced one that
\* nobody references is rejected: the build ends with the ValueError that
\* lists the ids of 0..len-1 that are absent ([1] in the scenario), and no table;
\* panels 0,1,2 with sizes 5,2,2 come out when 1 and 2 are both referenced.
C2_GapRejected ==
    /\ (Inferred /\ OverlaysHavePanel /\ CandidatesValid /\ Resolved
          /\ ~InitialSegment(CandidateSet))
          => /\ pc = "error"
             /\ err.kind = "ValueError" /\ err.site = "missing"
             /\ Elems(err.args) =
                  {IntV(m) : m \in (0..(Cardinality(CandidateIds) - 1)) \ CandidateIds}
             /\ pset = <<>>
    /\ (GapScenario /\ Resolved) => (pc = "error" /\ err.args = <<IntV(1)>>)
    /\ (Inferred /\ OverlaysHavePanel /\ CandidatesValid /\ CandidateIds = {0, 1, 2}
          /\ config.main_panel = IntV(0) /\ config.panel_ratios = NoRatios /\ Returned)
          => /\ pset = <<0, 1, 2>>
             /\ relsize = [p \in {0, 1, 2} |-> IF p = 0 THEN 5 ELSE 2]

\* the scenario has ended with the error
C2_Witness == GapScenario /\ pc = "error" /\ err.site = "missing"

\* an explicit num_panels in 1..10 and a main_panel below it
ExplicitValid ==
    /\ config.num_panels.t = "int"
    /\ config.num_panels.i >= 1 /\ config.num_panels.i <= MaxPanels
    /\ config.main_panel.t = "int"
    /\ config.main_panel.i >= 0 /\ config.main_panel.i < config.num_panels.i

\* C3: with an explicit num_panels in 1..10 and main_panel in 0..num_panels-1,
\* no error about the overlays, volume_panel or the panel set is raised whatever
\* they name, the panel set is 0..num_panels-1, and with the default ratios the
\* build raises no error at all.
C3_ExplicitSkipsReferences ==
    (ExplicitValid /\ Resolved)
        => /\ pset = RangeList(config.num_panels.i)
           /\ err.site \notin {"main_panel", "addplot", "addplot_panel", "volume_panel",
                               "missing", "num_panels"}
           /\ config.panel_ratios = NoRatios => pc # "error"

\* a table was returned although volume_panel and an overlay name panels
\* that do not exist
C3_Witness ==
    /\ ExplicitValid /\ Returned
    /\ config.volume /\ config.volume_panel = IntV(MaxPanels)
    /\ config.addplot.t = "list" /\ Len(config.addplot.items) = 1
    /\ config.addplot.items[1].panel = IntV(MaxPanels)

RatiosGiven == config.panel_ratios.t \in {"list", "tuple"}

\* C4 as stated: with one panel, every list or tuple given as panel_ratios is
\* ignored: the build returns the panel with height 0.7 and lift 0.
C4_SinglePanelIgnoresRatios ==
    (Len(pset) = 1 /\ RatiosGiven /\ Ended)
        => /\ Returned
           /\ height[0] = Rat(BandNum, BandDen)
           /\ lift[0] = RatZero

\* the relative sizes were stored, or the ratio resolution raised
RatiosResolved == pset # <<>> /\ pc # "ratios"

C6_OnlyDeclaredErrors ==
    pc = "error" => err.kind \in {"ValueError", "TypeError"}

\* C7: a table returned from positive relative sizes tiles the band [0, 0.7]:
\* the bottom panel has lift 0, each lift is the lift plus the height of the
\* panel below, lifts do not increase with the panel id, each height is
\* 0.7 * r_i / sum(r), and the heights sum to 0.7.
C7_Tiling ==
    LET n == Len(pset)
        P == 0..(n - 1)
    IN  (Returned /\ \A p \in P : relsize[p] > 0)
            => /\ DOMAIN lift = P /\ DOMAIN height = P
               /\ lift[n - 1] = RatZero
               /\ \A p \in P : p < n - 1 =>
                     /\ lift[p] = RatAdd(lift[p + 1], height[p + 1])
                     /\ RatLeq(lift[p + 1], lift[p])
               /\ \A p \in P : height[p][1] * BandDen * Sum(Pratios)
                                 = BandNum * relsize[p] * height[p][2]
               /\ RatAdd(lift[0], height[0]) = Rat(BandNum, BandDen)
               /\ RatSum(height, P) = Rat(BandNum, BandDen)

\* three panels of different positive sizes were returned
C7_Witness ==
    /\ Returned /\ Len(pset) = 3
    /\ relsize[0] # relsize[1] /\ relsize[1] # relsize[2]
    /\ \A p \in 0..2 : relsize[p] > 0

\* C8: when _build_panels ends in an error, no call to figure.add_axes and no
\* call to twinx has been made.
C8_NoSurfaceOnError ==
    pc = "error" => (figure.add_axes = <<>> /\ figure.twinx = 0)

\* the last error the code can raise, in the computation of the heights
C8_Witness == pc = "error" /\ err.kind = "ZeroDivisionError" /\ Len(pset) = 3

\* the calls of one kind the tick policy made on one Axes
TickCalls(ax, what) == {k \in 1..Len(ticks) : ticks[k] = TickCall(ax, what)}

\* C9: after the tick policy, the rotation and the formatter are on the primary
\* Axes of the last panel only, every other panel's primary Axes had its x
\* tick labels hidden exactly once, no secondary Axes was touched, and with one
\* panel nothing is hidden: exactly one panel shows x tick labels.
C9_TicksOnBottomOnly ==
    LET n == Len(pset)
        P == 0..(n - 1)
        bot == n - 1
    IN  pc = "ticked"
            => /\ \A p \in P :
                    /\ Cardinality(TickCalls(axes[p][1], "rotation"))
                          = (IF p = bot THEN 1 ELSE 0)
                    /\ Cardinality(TickCalls(axes[p][1], "formatter"))
                          = (IF p = bot THEN 1 ELSE 0)
                    /\ Cardinality(TickCalls(axes[p][1], "labelbottom_off"))
                          = (IF p = bot THEN 0 ELSE 1)
               /\ \A k \in 1..Len(ticks) : \A p \in P : ticks[k].ax # axes[p][2]
               /\ {p \in P : TickCalls(axes[p][1], "labelbottom_off") = {}} = {bot}
               /\ n = 1 => \A k \in 1..Len(ticks) : ticks[k].what # "labelbottom_off"

\* the tick policy has run on a table of three panels
C9_Witness == pc = "ticked" /\ Len(pset) = 3

\* C10 as stated: the num_panels error reports the value of num_panels.
C10_ReportsNumPanels ==
    (pc = "error" /\ err.site = "num_panels") => err.args = <<config.num_panels>>

=============================================================================
